---- MODULE Spec2Model ----
(***************************************************************************)
(* Agentic RAG backend: the semantic cache (services/semantic_cache.py),   *)
(* the retrieval service (services/rag.py), the context scorer             *)
(* (services/context_evaluator.py), the routing agent (services/agent.py)  *)
(* and the two query endpoints (api/routes/query.py, query_stream.py).     *)
(*                                                                         *)
(* Python dicts are functions from key strings to values, so that a key    *)
(* that is absent from a dict is absent from the DOMAIN.  Similarities and *)
(* relevance scores are fixed-point numbers in 1/1000; the clock counts    *)
(* hours.                                                                  *)
(***************************************************************************)
EXTENDS Integers, Sequences, FiniteSets, TLC

VARIABLES
    collection,             \* the "<org>_query_cache" collection's configuration, None while it does not exist
    cache,                  \* points of the "<org>_query_cache" collection
    now,                    \* datetime.utcnow(), in hours
    cloud_inference,        \* settings.qdrant_cloud_inference
    call,                   \* the direct SemanticCache call that just returned
    inflight,               \* the SemanticCache.set calls suspended at an await, by task
    services_initialized,   \* query_stream.py's module-level _services_initialized
    services,               \* the service objects the module globals hold: 0 for None, else the n-th bundle built
    pc,                     \* where the request in progress stands
    req,                    \* the request in progress: endpoint, user, query, mode, top_k
    frame,                  \* the locals of the handler and of the service call it awaits
    log,                    \* the collaborator calls the request has made, in order
    events,                 \* the server-sent events the streaming request has emitted
    resp                    \* the HTTP status and what the handler returned

cachevars == <<collection, cache, now, cloud_inference>>
reqvars == <<services_initialized, services, pc, req, frame, log, events, resp>>
vars == <<collection, cache, now, cloud_inference, call, inflight, services_initialized, services, pc, req, frame, log, events, resp>>

----
(* Bounds of the model. *)

MaxCachePoints == 2
MaxCacheEntries == 1
MaxTime == 25
MaxWriters == 2
TickSteps == {12, 13}

----
(* Program constants. *)

similarity_threshold == 950
ttl_hours == 24

None == [none |-> TRUE]
NoUser == ""

----
(* Query texts, as the word lists str.split() yields. *)

QA == <<"what", "is", "python">>
QA2 == <<"tell", "me", "about", "python">>
QB == <<"quantum", "computing">>
Queries == {QA, QA2, QB}

(* EmbeddingService.embed_text_query: the sentence-transformers model, a    *)
(* fixed function from text to a vector (the same model serves local and   *)
(* server-side embedding).  QA2 paraphrases QA; QB is unrelated.           *)
embed_text_query(q) ==
    CASE q = QA -> <<1, 0>>
      [] q = QA2 -> <<4, 1>>
      [] q = QB -> <<0, 1>>

Vectors == {embed_text_query(q) : q \in Queries}

Dot(a, b) == a[1] * b[1] + a[2] * b[2]

(* Distance.COSINE of the collection: cosine similarity, floored to 1/1000. *)
Cosine(a, b) ==
    LET d == Dot(a, b)
        n == Dot(a, a) * Dot(b, b)
    IN IF d <= 0 THEN 0
       ELSE CHOOSE s \in 0..1000 :
                /\ s * s * n <= d * d * 1000000
                /\ (s = 1000 \/ (s + 1) * (s + 1) * n > d * d * 1000000)

CosineTable == [a \in Vectors, b \in Vectors |-> Cosine(a, b)]

----
(* The vector store's search over the cache collection with top_k = 1.     *)

ScoredPoint(p, qv) == [id |-> p.id, score |-> CosineTable[qv, p.vector], payload |-> p.payload]

(* QdrantVectorStore.search, limit 1: the nearest point, any one of them   *)
(* when several points are equally near.  The set of possible result lists.*)
vector_store_search_top1(points, qv) ==
    IF points = <<>> THEN {<<>>}
    ELSE LET best == {i \in 1..Len(points) :
                        \A j \in 1..Len(points) :
                            CosineTable[qv, points[j].vector] <= CosineTable[qv, points[i].vector]}
         IN {<<ScoredPoint(points[i], qv)>> : i \in best}

(* datetime.isoformat and datetime.fromisoformat. *)
isoformat(t) == <<"iso", t>>
fromisoformat(s) == s[2]

----
(* SemanticCache.get, lines 137-158: the dict a hit returns.  Latencies are *)
(* measured values, written "ms".  In cloud mode the store attaches its    *)
(* server timings to the first result and get copies them.                 *)
result_data(best_match, age, use_cloud) ==
    LET payload == best_match.payload
        base == [answer |-> payload.answer,
                 sources |-> payload.sources,
                 mode |-> payload.mode,
                 cached |-> TRUE,
                 cache_score |-> best_match.score,
                 cached_query |-> payload.query,
                 cache_age_minutes |-> age * 60,
                 cache_latency_ms |-> "ms",
                 cloud_inference_used |-> use_cloud]
    IN IF use_cloud
       THEN [qdrant_server_ms |-> "ms", embedding_est_ms |-> "ms",
             search_est_ms |-> "ms", network_ms |-> "ms"] @@ base
       ELSE base

(* SemanticCache.get, after the search returned `results`. *)
cache_get_ttl_ignored(results, t, use_cloud) ==
    IF results = <<>> THEN None
    ELSE LET best_match == results[1] IN
         IF best_match.score < similarity_threshold THEN None
         ELSE result_data(best_match, t - fromisoformat(best_match.payload.timestamp), use_cloud)

cache_get_threshold_ignored(results, t, use_cloud) ==
    IF results = <<>> THEN None
    ELSE LET best_match == results[1]
             age == t - fromisoformat(best_match.payload.timestamp)
         IN IF age > ttl_hours THEN None
            ELSE result_data(best_match, age, use_cloud)

cache_get(results, t, use_cloud) ==
    IF results = <<>> THEN None
    ELSE LET best_match == results[1] IN
         IF best_match.score < similarity_threshold THEN None
         ELSE LET payload == best_match.payload
                  cached_time == fromisoformat(payload.timestamp)
                  age == t - cached_time
              IN IF age > ttl_hours THEN None
                 ELSE result_data(best_match, age, use_cloud)

(* The dict SemanticCache.set stores for a Source. *)
source_dict(s) ==
    [doc_name |-> s.doc_name, doc_id |-> s.doc_id, chunk_text |-> s.chunk_text,
     page |-> s.page, score |-> s.score]

(* SemanticCache.set: the payload; the keys of `metadata` are merged last. *)
cache_payload_mode_local(query, answer, sources, mode, user_id, metadata, t) ==
    metadata @@
    [query |-> query,
     answer |-> answer,
     sources |-> [i \in 1..Len(sources) |-> source_dict(sources[i])],
     mode |-> "local",
     timestamp |-> isoformat(t),
     user_id |-> IF user_id = NoUser THEN "unknown" ELSE user_id]

cache_payload(query, answer, sources, mode, user_id, metadata, t) ==
    metadata @@
    [query |-> query,
     answer |-> answer,
     sources |-> [i \in 1..Len(sources) |-> source_dict(sources[i])],
     mode |-> mode,
     timestamp |-> isoformat(t),
     user_id |-> IF user_id = NoUser THEN "unknown" ELSE user_id]

(* uuid.uuid4(): an id no point of the collection has. *)
fresh_id(points) == Len(points) + 1

(* SemanticCache.set: the collection after the upsert. *)
cache_set(points, query, payload) ==
    Append(points, [id |-> fresh_id(points), vector |-> embed_text_query(query), payload |-> payload])

----
(* core/auth.py: the static user registry, keyed by token. *)

Permissions(local, internet, classified, upload) ==
    [can_search_local |-> local, can_search_internet |-> internet,
     can_access_classified |-> classified, can_upload_documents |-> upload]

MOCK_USERS ==
    [admin |-> [user_id |-> "user_1", username |-> "admin", role |-> "admin",
                permissions |-> Permissions(TRUE, TRUE, TRUE, TRUE)],
     local_user |-> [user_id |-> "user_2", username |-> "local_user", role |-> "local_only",
                     permissions |-> Permissions(TRUE, FALSE, FALSE, FALSE)],
     hybrid_user |-> [user_id |-> "user_3", username |-> "hybrid_user", role |-> "hybrid",
                      permissions |-> Permissions(TRUE, TRUE, FALSE, FALSE)]]

get_user_by_token(token) ==
    IF token \in DOMAIN MOCK_USERS THEN MOCK_USERS[token] ELSE None

(* Authorization headers, as authorization.split() yields them; <<>> is a  *)
(* request without the header.                                             *)
Headers ==
    {<<>>, <<"Bearer", "admin">>, <<"bearer", "local_user">>, <<"Bearer", "hybrid_user">>,
     <<"Bearer", "nobody">>, <<"Basic", "admin">>, <<"Bearer">>}

lower(word) ==
    CASE word = "Bearer" -> "bearer"
      [] word = "Basic" -> "basic"
      [] word = "What" -> "what"
      [] word = "Python" -> "python"
      [] word = "Python," -> "python,"
      [] OTHER -> word

(* core/deps.py get_current_user: the user, or None where it raises 401. *)
get_current_user(authorization) ==
    IF authorization = <<>> THEN None
    ELSE IF Len(authorization) # 2 THEN None
    ELSE IF lower(authorization[1]) # "bearer" THEN None
    ELSE get_user_by_token(authorization[2])

----
(* The "<org>_text" collection: the knowledge base the retrieval searches. *)
(* Uploads (api/routes/kb.py) are outside the model: the collection is     *)
(* fixed.                                                                  *)

KB ==
    <<[id |-> "p1", vector |-> <<2, 1>>,
       payload |-> [filename |-> "python_intro.txt", doc_id |-> "d1", page_num |-> 1,
                    content |-> <<"python", "is", "a", "programming", "language">>,
                    tags |-> {}]],
      [id |-> "p2", vector |-> <<3, 1>>,
       payload |-> [filename |-> "python_internal.txt", doc_id |-> "d2", page_num |-> 1,
                    content |-> <<"python", "deployment", "secrets">>,
                    tags |-> {"classified"}]],
      [id |-> "p3", vector |-> <<1, 3>>,
       payload |-> [filename |-> "quantum_lab.txt", doc_id |-> "d3", page_num |-> 2,
                    content |-> <<"quantum", "lab", "notes">>,
                    tags |-> {"classified"}]]>>

KBScore(i, qv) == Cosine(qv, KB[i].vector)

KBScoreTable == [i \in 1..Len(KB), q \in Queries |-> KBScore(i, embed_text_query(q))]

RECURSIVE RankKB(_, _)
(* The points `left` of the knowledge base by descending score for q. *)
RankKB(left, q) ==
    IF left = {} THEN <<>>
    ELSE LET i == CHOOSE x \in left : \A y \in left :
                      \/ KBScoreTable[y, q] < KBScoreTable[x, q]
                      \/ (KBScoreTable[y, q] = KBScoreTable[x, q] /\ x <= y)
         IN <<[id |-> KB[i].id, score |-> KBScoreTable[i, q], payload |-> KB[i].payload]>>
            \o RankKB(left \ {i}, q)

Min(a, b) == IF a < b THEN a ELSE b
Max(a, b) == IF a > b THEN a ELSE b
Take(seq, n) == SubSeq(seq, 1, Min(n, Len(seq)))

(* QdrantVectorStore.search on the text collection: the top_k nearest. *)
vector_store_search(q, top_k) == Take(RankKB(1..Len(KB), q), top_k)

----
(* services/rag.py *)

(* schemas/query.py Source *)
Source(doc_name, doc_id, chunk_text, page, score) ==
    [doc_name |-> doc_name, doc_id |-> doc_id, chunk_text |-> chunk_text,
     page |-> page, score |-> score, image_url |-> "null"]

(* query_local, lines 84-106: drop classified results when asked to, then  *)
(* wrap the first top_k results as Sources.  The documents of the model    *)
(* are shorter than the 200-character preview.                             *)
local_results_unfiltered(results, top_k, filter_classified) == Take(results, top_k)

local_results(results, top_k, filter_classified) ==
    LET kept == IF filter_classified
                THEN SelectSeq(results, LAMBDA r : "classified" \notin r.payload.tags)
                ELSE results
    IN Take(kept, top_k)

local_sources(results) ==
    [i \in 1..Len(results) |->
        Source(results[i].payload.filename, results[i].payload.doc_id,
               results[i].payload.content, results[i].payload.page_num, results[i].score)]

(* LLMService.generate: the answer is identified by the prompt it answers. *)
generate(kind, query, context) == [prompt |-> kind, query |-> query, context |-> context]

local_context(results) == [i \in 1..Len(results) |-> results[i].payload.content]

(* query_local's return value. *)
query_local_result(query, results, return_timing) ==
    LET base == [answer |-> generate("local", query, local_context(results)),
                 sources |-> local_sources(results),
                 mode |-> "local"]
    IN IF return_timing
       THEN [timings |-> [embedding_ms |-> "ms", qdrant_search_ms |-> "ms",
                          llm_generation_ms |-> "ms"]] @@ base
       ELSE base

(* PerplexitySearchService.search: one result wrapping the service's answer. *)
internet_search(query, num_results) ==
    <<[title |-> "Perplexity AI - Real-time Search", url |-> "https://www.perplexity.ai",
       snippet |-> <<"web", "answer", "for">> \o query, score |-> 950]>>

(* query_internet's return value. *)
query_internet_result(query, search_results) ==
    [answer |-> generate("internet", query,
                         [i \in 1..Len(search_results) |-> search_results[i].snippet]),
     sources |-> [i \in 1..Len(search_results) |->
                    Source(search_results[i].title, search_results[i].url,
                           search_results[i].snippet, "null", search_results[i].score)],
     mode |-> "internet"]

(* query_hybrid's return value. *)
query_hybrid_result(query, local_result, internet_result) ==
    [answer |-> generate("hybrid", query, <<local_result.answer, internet_result.answer>>),
     sources |-> local_result.sources \o internet_result.sources,
     mode |-> "hybrid"]

----
(* services/context_evaluator.py.  Sub-scores are computed in 1/1000000 and *)
(* returned rounded to 1/1000, as round(x, 3) does.                         *)

stop_words ==
    {"what", "is", "the", "a", "an", "how", "why", "when", "where", "who", "tell", "me", "about"}

Range(seq) == {seq[i] : i \in 1..Len(seq)}

RECURSIVE SumScores(_)
SumScores(sources) ==
    IF sources = <<>> THEN 0 ELSE sources[1].score + SumScores(Tail(sources))

mean_score(sources) == (SumScores(sources) * 1000) \div Len(sources)

(* _calculate_coverage *)
calculate_coverage(query, sources) ==
    LET query_terms == {lower(w) : w \in Range(query)} \ stop_words
        context_words == UNION {{lower(w) : w \in Range(sources[i].chunk_text)} :
                                  i \in 1..Len(sources)}
        matched == Cardinality(query_terms \cap context_words)
    IN IF query_terms = {} THEN 500000
       ELSE Min((matched * 1000000) \div Cardinality(query_terms), 1000000)

(* What the generation backend may answer to the confidence prompt. *)
ConfidenceResponses == {<<"0.9">>, <<"0.1">>}
LlmRaised == <<"raised">>

(* float(token), in 1/1000000; -1 where float() raises. *)
parse_float(token) ==
    CASE token = "0.9" -> 900000
      [] token = "0.1" -> 100000
      [] token = "0.5" -> 500000
      [] token = "1.5" -> 1500000
      [] OTHER -> -1

(* _check_llm_confidence, given what the backend call did. *)
check_llm_confidence_fault_zero(query, sources, response) ==
    IF response = LlmRaised THEN 0
    ELSE LET score == IF response = <<>> THEN -1 ELSE parse_float(response[1]) IN
         IF score >= 0 THEN Max(0, Min(1000000, score))
         ELSE IF "cannot" \in Range(response) \/ "no" \in Range(response) THEN 200000
         ELSE IF "fully" \in Range(response) \/ "yes" \in Range(response) THEN 900000
         ELSE 500000

check_llm_confidence(query, sources, response) ==
    IF response = LlmRaised THEN mean_score(sources)
    ELSE LET score == IF response = <<>> THEN -1 ELSE parse_float(response[1]) IN
         IF score >= 0 THEN Max(0, Min(1000000, score))
         ELSE IF "cannot" \in Range(response) \/ "no" \in Range(response) THEN 200000
         ELSE IF "fully" \in Range(response) \/ "yes" \in Range(response) THEN 900000
         ELSE 500000

round3(x) == (x + 500) \div 1000

(* The weighted sum is kept exact, in 1/10000000. *)
round3_weighted(x) == (x + 5000) \div 10000

(* score_context; `response` is the backend's answer to the confidence     *)
(* prompt, which is only asked for when there are sources.                 *)
score_context_overall_only(query, sources, response) ==
    IF sources = <<>>
    THEN [overall_score |-> 0, vector_score |-> 0, coverage |-> 0, llm_confidence |-> 0,
          is_sufficient |-> FALSE,
          reason |-> "No relevant documents found in knowledge base"]
    ELSE LET vector_score == mean_score(sources)
             coverage == calculate_coverage(query, sources)
             llm_confidence == check_llm_confidence(query, sources, response)
             overall_score == vector_score * 4 + coverage * 2 + llm_confidence * 4
             is_sufficient == overall_score > 6000000
         IN [overall_score |-> round3_weighted(overall_score),
             vector_score |-> round3(vector_score),
             coverage |-> round3(coverage),
             llm_confidence |-> round3(llm_confidence),
             is_sufficient |-> is_sufficient,
             reason |-> IF is_sufficient THEN "Local knowledge base has sufficient information"
                        ELSE IF overall_score < 3000000
                             THEN "Local knowledge base has very limited information"
                        ELSE "Local knowledge base has partial information, internet search recommended"]

score_context_empty_neutral(query, sources, response) ==
    IF sources = <<>>
    THEN [overall_score |-> 100, vector_score |-> 0, coverage |-> 500, llm_confidence |-> 0,
          is_sufficient |-> FALSE,
          reason |-> "Local knowledge base has very limited information"]
    ELSE LET vector_score == mean_score(sources)
             coverage == calculate_coverage(query, sources)
             llm_confidence == check_llm_confidence(query, sources, response)
             overall_score == vector_score * 4 + coverage * 2 + llm_confidence * 4
             is_sufficient == overall_score > 6000000 /\ llm_confidence > 500000
         IN [overall_score |-> round3_weighted(overall_score),
             vector_score |-> round3(vector_score),
             coverage |-> round3(coverage),
             llm_confidence |-> round3(llm_confidence),
             is_sufficient |-> is_sufficient,
             reason |-> IF is_sufficient THEN "Local knowledge base has sufficient information"
                        ELSE IF overall_score < 3000000
                             THEN "Local knowledge base has very limited information"
                        ELSE "Local knowledge base has partial information, internet search recommended"]

score_context(query, sources, response) ==
    IF sources = <<>>
    THEN [overall_score |-> 0, vector_score |-> 0, coverage |-> 0, llm_confidence |-> 0,
          is_sufficient |-> FALSE,
          reason |-> "No relevant documents found in knowledge base"]
    ELSE LET vector_score == mean_score(sources)
             coverage == calculate_coverage(query, sources)
             llm_confidence == check_llm_confidence(query, sources, response)
             overall_score == vector_score * 4 + coverage * 2 + llm_confidence * 4
             is_sufficient == overall_score > 6000000 /\ llm_confidence > 500000
         IN [overall_score |-> round3_weighted(overall_score),
             vector_score |-> round3(vector_score),
             coverage |-> round3(coverage),
             llm_confidence |-> round3(llm_confidence),
             is_sufficient |-> is_sufficient,
             reason |-> IF is_sufficient THEN "Local knowledge base has sufficient information"
                        ELSE IF overall_score < 3000000
                             THEN "Local knowledge base has very limited information"
                        ELSE "Local knowledge base has partial information, internet search recommended"]

----
(* The request in progress. *)

NoFrame ==
    [cached_result |-> None, running |-> "none", phase |-> "none", return_timing |-> FALSE,
     results |-> <<>>, search_results |-> <<>>, local_ret |-> None, internet_ret |-> None,
     local_result |-> None, quality |-> None, final_result |-> None,
     agent_decision |-> "", decision_log |-> <<>>, perf |-> <<>>]

NoResponse == [http |-> 0, returned |-> None, body |-> None, raised |-> ""]

(* QueryRequest.mode is any string: "turbo" is one no branch recognises. *)
Modes == {"auto", "local", "internet", "hybrid", "turbo"}
RequestQueries == {QA, QB}
TopKs == {1, 5}

----
(* The deployment once the cache collection has been created. *)
Init ==
    /\ collection = [size |-> 384, distance |-> "COSINE"]
    /\ cache = <<>>
    /\ now = 0
    /\ cloud_inference \in BOOLEAN
    /\ call = [op |-> "none"]
    /\ inflight = <<>>
    /\ services_initialized = FALSE
    /\ services = 0
    /\ pc = "idle"
    /\ req = None
    /\ frame = NoFrame
    /\ log = <<>>
    /\ events = <<>>
    /\ resp = NoResponse

(* Time passes, between two requests. *)
Tick ==
    /\ pc = "idle"
    /\ \E d \in TickSteps : now + d <= MaxTime /\ now' = now + d
    /\ call' = [op |-> "none"]
    /\ UNCHANGED <<collection, cache, cloud_inference, inflight, reqvars>>

(* A direct call of SemanticCache.set.  The embedding or the upsert may    *)
(* raise; the except clause logs and returns.                              *)
SampleModes == {"local", "internet"}

CacheSet ==
    /\ Len(cache) < MaxCachePoints
    /\ \E q \in Queries, m \in SampleModes, stored \in BOOLEAN :
         LET payload == cache_payload(q, [kind |-> m, query |-> q], <<>>, m, NoUser, <<>>, now) IN
         /\ stored => collection # None
         /\ cache' = IF stored THEN cache_set(cache, q, payload) ELSE cache
         /\ call' = [op |-> "set", query |-> q, stored |-> stored]
    /\ UNCHANGED <<collection, now, cloud_inference, inflight, reqvars>>

(* A direct call of SemanticCache.get.  The embedding (local mode only) or *)
(* the search may raise; the except clause logs and returns None.          *)
CacheGet ==
    /\ \E q \in Queries :
         LET after_set == call.op = "set" /\ call.stored /\ call.query = q IN
         \/ \E results \in vector_store_search_top1(cache, embed_text_query(q)) :
              /\ collection # None
              /\ call' = [op |-> "get", query |-> q, raised |-> FALSE, after_set |-> after_set,
                          results |-> results,
                          ret |-> cache_get(results, now, cloud_inference)]
         \/ call' = [op |-> "get", query |-> q, raised |-> TRUE, after_set |-> after_set,
                     results |-> <<>>, ret |-> None]
    /\ UNCHANGED <<collection, cache, now, cloud_inference, inflight, reqvars>>

NextCache == Tick \/ CacheSet \/ CacheGet

SpecCache == Init /\ [][NextCache]_vars

----
(* Concurrent requests: each is an asyncio task of its own, and the tasks   *)
(* interleave at the awaits of SemanticCache.set.                          *)

(* What a query execution hands to cache.set (agent.py, lines 217-227):    *)
(* the query and the answer, sources and mode of its own final_result.     *)
Executions ==
    {[query |-> q, result |-> query_internet_result(q, internet_search(q, 5))] :
        q \in RequestQueries}
    \cup
    {[query |-> q,
      result |-> query_local_result(q, local_results(vector_store_search(q, 5), 5, FALSE), FALSE)] :
        q \in RequestQueries}

UsedIds == {cache[i].id : i \in 1..Len(cache)} \cup {inflight[w].cache_id : w \in DOMAIN inflight}

uuid4_reused(used) == 1

(* uuid.uuid4(): an id no other call has drawn. *)
uuid4(used) == CHOOSE n \in 1..(Cardinality(used) + 1) : n \notin used

(* QdrantVectorStore.upsert_vectors with one point: Qdrant replaces the    *)
(* point that has the id, or adds the point.                               *)
upsert_vectors(points, point) ==
    IF \E i \in 1..Len(points) : points[i].id = point.id
    THEN [i \in 1..Len(points) |-> IF points[i].id = point.id THEN point ELSE points[i]]
    ELSE Append(points, point)

Returned(w) == [x \in DOMAIN inflight \ {w} |-> inflight[x]]

(* SemanticCache.set, lines 174-199: the payload and the id are built      *)
(* from the arguments, before the first await.                             *)
SetCall(w) ==
    /\ w \notin DOMAIN inflight
    /\ Len(cache) + Cardinality(DOMAIN inflight) < MaxCachePoints
    /\ \E e \in Executions :
         inflight' = (w :> [pc |-> IF cloud_inference THEN "upsert" ELSE "embed",
                            query |-> e.query,
                            payload |-> cache_payload(e.query, e.result.answer, e.result.sources,
                                                      e.result.mode, NoUser, <<>>, now),
                            cache_id |-> uuid4(UsedIds),
                            query_vector |-> <<>>]) @@ inflight
    /\ call' = [op |-> "none"]
    /\ UNCHANGED <<cachevars, reqvars>>

(* Lines 214-220: the local embedding returns or raises. *)
SetEmbed(w) ==
    /\ w \in DOMAIN inflight
    /\ inflight[w].pc = "embed"
    /\ \/ inflight' = [inflight EXCEPT ![w].pc = "upsert",
                                       ![w].query_vector = embed_text_query(inflight[w].query)]
       \/ inflight' = Returned(w)
    /\ UNCHANGED <<cachevars, call, reqvars>>

(* Lines 204-210 and 221-226: the upsert stores the point or raises; with  *)
(* cloud inference the server embeds the query text.  Then set returns.    *)
SetUpsert(w) ==
    /\ w \in DOMAIN inflight
    /\ inflight[w].pc = "upsert"
    /\ \/ collection # None /\ cache' = upsert_vectors(cache,
                      [id |-> inflight[w].cache_id,
                       vector |-> IF cloud_inference THEN embed_text_query(inflight[w].query)
                                  ELSE inflight[w].query_vector,
                       payload |-> inflight[w].payload])
       \/ cache' = cache
    /\ inflight' = Returned(w)
    /\ UNCHANGED <<collection, now, cloud_inference, call, reqvars>>

NextConc == Tick \/ \E w \in 1..MaxWriters : SetCall(w) \/ SetEmbed(w) \/ SetUpsert(w)

SpecConc == Init /\ [][NextConc]_vars

----
(* The cache collection's life, from a deployment where it does not exist. *)

InitFresh ==
    /\ collection = None
    /\ cache = <<>>
    /\ now = 0
    /\ cloud_inference \in BOOLEAN
    /\ call = [op |-> "none"]
    /\ inflight = <<>>
    /\ services_initialized = FALSE
    /\ services = 0
    /\ pc = "idle"
    /\ req = None
    /\ frame = NoFrame
    /\ log = <<>>
    /\ events = <<>>
    /\ resp = NoResponse

(* What the Qdrant server answers to a create request. *)
Backends == {"up", "unreachable"}

(* QdrantVectorStore.create_collection: the client call creates the        *)
(* collection, or raises because the collection exists or the server does  *)
(* not answer; the except clause prints the exception and the method       *)
(* returns.  The Optional[int] vector_size is <<>> for None and <<n>> for  *)
(* n; both branches create 384-dimensional cosine vectors when it is None. *)
create_collection(existing, vector_size, backend) ==
    LET client_raises == backend = "unreachable" \/ existing # None
        created == [size |-> IF vector_size = <<>> THEN 384 ELSE vector_size[1],
                    distance |-> "COSINE"]
    IN [collection |-> IF client_raises THEN existing ELSE created,
        printed |-> client_raises,
        raised |-> FALSE]

(* SemanticCache.initialize. *)
initialize(existing, use_cloud, backend) ==
    LET vector_size == IF use_cloud THEN <<>> ELSE <<384>> IN
    create_collection(existing, vector_size, backend)

(* A call of SemanticCache.initialize: one per POST /query/ request, one   *)
(* per process through get_services.                                       *)
Initialize ==
    /\ \E backend \in Backends :
         LET r == initialize(collection, cloud_inference, backend) IN
         /\ collection' = r.collection
         /\ call' = [op |-> "initialize", raised |-> r.raised, printed |-> r.printed,
                     backend |-> backend, existed |-> collection # None, entries |-> cache]
    /\ UNCHANGED <<cache, now, cloud_inference, inflight, reqvars>>

NextInit == Tick \/ CacheSet \/ CacheGet \/ Initialize

SpecInit == InitFresh /\ [][NextInit]_vars

----
(* Direct calls of ContextEvaluator.score_context, on queries, sources and *)
(* backend answers drawn from small sets.                                  *)

MaxSources == 2

ScoreQueries ==
    Queries \cup {<<"what", "is">>, <<"What", "is", "Python">>, <<"python", "python", "quantum">>}

SourceTexts ==
    {<<"python", "is", "a", "language">>, <<"Python,", "the", "language">>,
     <<"quantum", "lab", "notes">>}

SourceScores == {100, 399, 400, 900}

ScoreSources ==
    {Source("doc.txt", "d", text, <<>>, score) : text \in SourceTexts, score \in SourceScores}

ScoreSourceLists == UNION {[1..n -> ScoreSources] : n \in 1..MaxSources}

BackendResponses ==
    ConfidenceResponses \cup
    {LlmRaised, <<"0.5">>, <<"1.5">>, <<"cannot", "answer">>, <<"yes">>, <<"maybe">>}

InitScore ==
    /\ collection = [size |-> 384, distance |-> "COSINE"]
    /\ cache = <<>>
    /\ now = 0
    /\ cloud_inference = FALSE
    /\ \E query \in ScoreQueries, sources \in ScoreSourceLists, response \in BackendResponses :
         call = [op |-> "score_context", returned |-> FALSE, query |-> query,
                 sources |-> sources, response |-> response, quality |-> None]
    /\ inflight = <<>>
    /\ services_initialized = FALSE
    /\ services = 0
    /\ pc = "idle"
    /\ req = None
    /\ frame = NoFrame
    /\ log = <<>>
    /\ events = <<>>
    /\ resp = NoResponse

ScoreContext ==
    /\ call.op = "score_context" /\ ~call.returned
    /\ call' = [call EXCEPT !.returned = TRUE,
                            !.quality = score_context(call.query, call.sources, call.response)]
    /\ UNCHANGED <<cachevars, inflight, reqvars>>

NextScore == ScoreContext

SpecScore == InitScore /\ [][NextScore]_vars

----
(* Helpers of the request steps. *)

Call(op, by, ok) == [op |-> op, by |-> by, ok |-> ok]

(* dict.pop(key) *)
Without(d, key) == [x \in DOMAIN d \ {key} |-> d[x]]

(* What SemanticCache.get may do: raise inside its try block (the local    *)
(* embedding or the store's search), or search and return.                 *)
CacheGetOutcomes(query) ==
    {[raised |-> TRUE, results |-> <<>>]} \cup
    {[raised |-> FALSE, results |-> r] : r \in vector_store_search_top1(cache, embed_text_query(query))}

semantic_cache_get_fault_surfaces(outcome) ==
    IF outcome.raised THEN [answer |-> "stale"] ELSE cache_get(outcome.results, now, cloud_inference)

semantic_cache_get(outcome) ==
    IF outcome.raised THEN None ELSE cache_get(outcome.results, now, cloud_inference)

(* `if cached_result:` (agent.py line 69, query_stream.py line 146). *)
is_hit_never(cached_result) == FALSE

is_hit(cached_result) == cached_result # None

(* api/routes/query.py lines 91-96 and query_stream.py lines 456-461. *)
forbidden(mode, user) ==
    mode \in {"internet", "hybrid"} /\ ~user.permissions.can_search_internet

(* schemas/query.py QueryResponse: the fields without a default. *)
QueryResponseRequired == {"query_id", "query", "answer", "sources", "mode", "timestamp"}

QueryResponseFields ==
    QueryResponseRequired \cup
    {"cached", "cache_score", "context_quality", "agent_decision", "decision_log",
     "processing_time_ms", "performance_breakdown", "qdrant_server_ms", "embedding_est_ms",
     "search_est_ms", "network_ms", "cache_latency_ms", "cloud_inference_used",
     "user_feedback", "user_mode_override"}

(* QueryResponse built from the result dict: None where pydantic raises a  *)
(* validation error.                                                       *)
QueryResponse(result) ==
    IF QueryResponseRequired \subseteq DOMAIN result
    THEN [k \in DOMAIN result \cap QueryResponseFields |-> result[k]]
    ELSE None

----
(* services/agent.py: the pure parts of query_intelligent. *)

(* lines 75-94: what a cache hit returns. *)
cache_hit_result_stages_timed(cached_result, query, t, decision_log, perf) ==
    [query |-> query,
     query_id |-> [prefix |-> "cached", at |-> t],
     timestamp |-> t,
     decision_log |-> decision_log,
     processing_time_ms |-> "ms",
     performance_breakdown |->
        [total_ms |-> "ms", cache_check_ms |-> perf["cache_check_ms"],
         embedding_ms |-> "ms", qdrant_search_ms |-> "ms", context_eval_ms |-> "null",
         internet_search_ms |-> "null", llm_generation_ms |-> "null",
         cache_store_ms |-> "null"]] @@ cached_result

cache_hit_result(cached_result, query, t, decision_log, perf) ==
    [query |-> query,
     query_id |-> [prefix |-> "cached", at |-> t],
     timestamp |-> t,
     decision_log |-> decision_log,
     processing_time_ms |-> "ms",
     performance_breakdown |->
        [total_ms |-> "ms", cache_check_ms |-> perf["cache_check_ms"],
         embedding_ms |-> "null", qdrant_search_ms |-> "null", context_eval_ms |-> "null",
         internet_search_ms |-> "null", llm_generation_ms |-> "null",
         cache_store_ms |-> "null"]] @@ cached_result

(* line 103 *)
user_override_untagged(force_mode) == "User override: ?"

user_override(force_mode) ==
    CASE force_mode = "local" -> "User override: local"
      [] force_mode = "internet" -> "User override: internet"
      [] force_mode = "hybrid" -> "User override: hybrid"
      [] OTHER -> "User override: ?"

(* _execute_mode: the retrieval method a mode string runs. *)
execute_mode_defaults_local(mode) ==
    CASE mode = "local" -> "local"
      [] mode = "internet" -> "internet"
      [] mode = "hybrid" -> "hybrid"
      [] OTHER -> "local"

execute_mode(mode) ==
    CASE mode = "local" -> "local"
      [] mode = "internet" -> "internet"
      [] mode = "hybrid" -> "hybrid"
      [] OTHER -> "ValueError"

(* lines 160-196: the routing decision and the retrieval it starts. *)
decide_swapped(quality, user) ==
    IF quality.is_sufficient
    THEN [agent_decision |-> "local_sufficient", run |-> "none"]
    ELSE IF user.permissions.can_search_internet
         THEN IF quality.overall_score < 300
              THEN [agent_decision |-> "hybrid_partial_local", run |-> "hybrid"]
              ELSE [agent_decision |-> "internet_no_local", run |-> "internet"]
         ELSE [agent_decision |-> "local_no_permission", run |-> "none"]

decide(quality, user) ==
    IF quality.is_sufficient
    THEN [agent_decision |-> "local_sufficient", run |-> "none"]
    ELSE IF user.permissions.can_search_internet
         THEN IF quality.overall_score < 300
              THEN [agent_decision |-> "internet_no_local", run |-> "internet"]
              ELSE [agent_decision |-> "hybrid_partial_local", run |-> "hybrid"]
         ELSE [agent_decision |-> "local_no_permission", run |-> "none"]

(* lines 198-212: the metadata added to the final result. *)
annotate(final_result, quality, agent_decision, query, t) ==
    [context_quality |-> quality,
     agent_decision |-> agent_decision,
     cached |-> FALSE,
     query |-> query,
     query_id |-> [prefix |-> "agent", at |-> t],
     timestamp |-> t,
     processing_time_ms |-> "ms"] @@ final_result

(* query_stream.py lines 330-342: the mode the streaming handler runs. *)
mode_used(quality, user) ==
    IF quality.is_sufficient THEN "local"
    ELSE IF user.permissions.can_search_internet
         THEN IF quality.overall_score < 300 THEN "internet" ELSE "hybrid"
         ELSE "local"

(* query_stream.py lines 418-437: the data of the final result event. *)
stream_result_data(final_result, query, quality, mode, t) ==
    [answer |-> final_result.answer,
     sources |-> final_result.sources,
     mode |-> final_result.mode,
     query |-> query,
     query_id |-> [prefix |-> "stream", at |-> t],
     processing_time_ms |-> "ms",
     context_quality |-> quality,
     agent_decision |-> mode]

(* query_intelligent, lines 63-212, as a function of its inputs, of the    *)
(* lookup's result and of the quality score_context computes: the mode,    *)
(* answer and sources it returns when no call fails.                       *)
query_intelligent_result(query, user, force_mode, top_k, cached_result, quality) ==
    IF is_hit(cached_result)
    THEN [mode |-> cached_result.mode, answer |-> cached_result.answer,
          sources |-> cached_result.sources]
    ELSE LET results == local_results(vector_store_search(query, top_k), top_k,
                                      ~user.permissions.can_access_classified)
             local == query_local_result(query, results, FALSE)
             internet == query_internet_result(query, internet_search(query, top_k))
             hybrid == query_hybrid_result(query, local, internet)
             run == IF force_mode # "auto"
                    THEN execute_mode(force_mode)
                    ELSE LET d == decide(quality, user) IN
                         IF d.run = "none" THEN "local" ELSE d.run
         IN CASE run = "local" -> local
              [] run = "internet" -> internet
              [] run = "hybrid" -> hybrid

EntryPc_internet_first(method) == "qn_search"

EntryPc(method) == IF method = "internet" THEN "qn_search" ELSE "ql_search"

----
(* An exception leaves the handler: POST /query/ answers 500; the          *)
(* streaming generator's except clause emits an error event.               *)
Raise_retried(by) ==
    /\ pc' = pc
    /\ resp' = resp
    /\ events' = events

Raise(by) ==
    /\ pc' = "done"
    /\ IF req.endpoint = "query"
       THEN /\ resp' = [http |-> 500, returned |-> None, body |-> None, raised |-> by]
            /\ events' = events
       ELSE /\ resp' = [resp EXCEPT !.raised = by]
            /\ events' = Append(events, "error")

(* POST /query/ (api/routes/query.py).  FastAPI resolves the dependencies  *)
(* in parameter order before it runs the handler: get_current_user, then   *)
(* get_agent_service, which builds the services and awaits                 *)
(* semantic_cache.initialize(); the handler then checks the permission.    *)
PostQuery ==
    /\ pc = "idle"
    /\ \E h \in Headers, q \in RequestQueries, m \in Modes, k \in TopKs :
         LET current_user == get_current_user(h) IN
         /\ req' = [endpoint |-> "query", user |-> current_user, query |-> q,
                    mode |-> m, top_k |-> k]
         /\ IF current_user = None
            THEN /\ log' = <<>>
                 /\ resp' = [NoResponse EXCEPT !.http = 401]
                 /\ pc' = "done"
            ELSE /\ log' = <<Call("vector_store.create_collection", "initialize", TRUE)>>
                 /\ IF forbidden(m, current_user)
                    THEN resp' = [NoResponse EXCEPT !.http = 403] /\ pc' = "done"
                    ELSE resp' = NoResponse /\ pc' = "cache_get"
    /\ frame' = NoFrame
    /\ events' = <<>>
    /\ UNCHANGED <<cachevars, call, inflight, services_initialized, services>>

(* query_intelligent, lines 63-117: the cache lookup, the return of a hit, *)
(* and on a miss the start of the forced mode or of the local retrieval.   *)
AgentCacheGet ==
    /\ pc = "cache_get" /\ req.endpoint = "query"
    /\ \E outcome \in CacheGetOutcomes(req.query) :
         LET cached_result == semantic_cache_get(outcome)
             perf == [cache_check_ms |-> "ms"]
             force_mode == IF req.mode = "auto" THEN "None" ELSE req.mode
         IN
         /\ log' = Append(log, Call("cache.get", "query_intelligent", ~outcome.raised))
         /\ IF is_hit(cached_result)
            THEN LET result == cache_hit_result(cached_result, req.query, now,
                                   <<"checking cache", "cache hit", "returning cached">>, perf)
                     body == QueryResponse(result)
                 IN /\ resp' = [http |-> IF body = None THEN 500 ELSE 200,
                                returned |-> result, body |-> body, raised |-> ""]
                    /\ pc' = "done"
                    /\ frame' = [frame EXCEPT !.cached_result = cached_result]
            ELSE IF force_mode # "None" /\ force_mode # "auto"
            THEN LET method == execute_mode(force_mode) IN
                 /\ frame' = [frame EXCEPT
                        !.cached_result = cached_result,
                        !.running = method, !.phase = "forced", !.return_timing = FALSE,
                        !.perf = perf,
                        !.decision_log = <<"checking cache", "cache miss", "forced mode">>]
                 /\ IF method = "ValueError"
                    THEN Raise("ValueError")
                    ELSE pc' = EntryPc(method) /\ resp' = resp
            ELSE /\ frame' = [frame EXCEPT
                        !.cached_result = cached_result,
                        !.running = "local", !.phase = "auto_local", !.return_timing = TRUE,
                        !.perf = perf,
                        !.decision_log = <<"checking cache", "cache miss", "searching local">>]
                 /\ pc' = EntryPc("local")
                 /\ resp' = resp
    /\ UNCHANGED <<cachevars, call, inflight, services_initialized, services, req, events>>

(* A retrieval method of RAGService returns `ret` to the handler that      *)
(* awaited it: agent.py lines 102-103 (forced mode), 132-148 (the first    *)
(* local retrieval), 176-189 and 199-212 (the routed retrieval);           *)
(* query_stream.py lines 368-399.                                          *)
Return(ret) ==
    CASE req.endpoint = "query" /\ frame.phase = "forced" ->
            /\ frame' = [frame EXCEPT !.final_result =
                            [decision_log |-> frame.decision_log,
                             agent_decision |-> user_override(req.mode)] @@ ret]
            /\ pc' = "cache_set"
            /\ UNCHANGED <<resp, events>>
      [] req.endpoint = "query" /\ frame.phase = "auto_local" ->
            /\ frame' = [frame EXCEPT
                   !.local_result = Without(ret, "timings"),
                   !.perf = [embedding_ms |-> ret.timings.embedding_ms,
                             qdrant_search_ms |-> ret.timings.qdrant_search_ms,
                             llm_generation_ms |-> ret.timings.llm_generation_ms] @@ frame.perf,
                   !.decision_log = frame.decision_log \o <<"found sources", "timings", "evaluating">>]
            /\ pc' = "score"
            /\ UNCHANGED <<resp, events>>
      [] req.endpoint = "query" /\ frame.phase = "auto_final" ->
            /\ frame' = [frame EXCEPT
                   !.final_result = annotate(ret, frame.quality, frame.agent_decision, req.query, now),
                   !.perf = [internet_search_ms |-> "ms"] @@ frame.perf,
                   !.decision_log = frame.decision_log \o <<"search completed">>]
            /\ pc' = "cache_set"
            /\ UNCHANGED <<resp, events>>
      [] req.endpoint = "stream" ->
            /\ frame' = [frame EXCEPT !.final_result = ret]
            /\ events' = events \o
                  <<IF frame.running = "local" THEN "status:llm_done" ELSE "status:internet_done",
                    "status:caching">>
            /\ pc' = "cache_set"
            /\ resp' = resp

filter_classified == ~req.user.permissions.can_access_classified

(* RAGService.query_local, lines 44-106: the embedding (local mode only),  *)
(* the search of the text collection, the filter and the sources.          *)
QueryLocalSearch ==
    /\ pc = "ql_search"
    /\ \E outcome \in {"ok", "embedding raised", "search raised"} :
         /\ outcome = "embedding raised" => ~cloud_inference
         /\ log' = log
                \o (IF cloud_inference THEN <<>>
                    ELSE <<Call("embedding.embed_text_query", "query_local",
                                outcome # "embedding raised")>>)
                \o (IF outcome = "embedding raised" THEN <<>>
                    ELSE <<Call("vector_store.search", "query_local", outcome = "ok")>>)
         /\ IF outcome = "ok"
            THEN /\ frame' = [frame EXCEPT !.results =
                        local_results(vector_store_search(req.query, req.top_k),
                                      req.top_k, filter_classified)]
                 /\ pc' = "ql_gen"
                 /\ UNCHANGED <<resp, events>>
            ELSE Raise(outcome) /\ frame' = frame
    /\ UNCHANGED <<cachevars, call, inflight, services_initialized, services, req>>

(* RAGService.query_local, lines 108-135: the generation and the return;   *)
(* inside query_hybrid (line 189) the internet query follows.              *)
QueryLocalGenerate ==
    /\ pc = "ql_gen"
    /\ \E ok \in BOOLEAN :
         /\ log' = Append(log, Call("llm.generate", "query_local", ok))
         /\ IF ok
            THEN LET ret == query_local_result(req.query, frame.results, frame.return_timing) IN
                 IF frame.running = "hybrid"
                 THEN /\ frame' = [frame EXCEPT !.local_ret = ret]
                      /\ pc' = "qn_search"
                      /\ UNCHANGED <<resp, events>>
                 ELSE Return(ret)
            ELSE Raise("generate raised") /\ frame' = frame
    /\ UNCHANGED <<cachevars, call, inflight, services_initialized, services, req>>

(* RAGService.query_internet, line 140: the internet search. *)
QueryInternetSearch ==
    /\ pc = "qn_search"
    /\ \E ok \in BOOLEAN :
         /\ log' = Append(log, Call("search.search", "query_internet", ok))
         /\ IF ok
            THEN /\ frame' = [frame EXCEPT !.search_results = internet_search(req.query, req.top_k)]
                 /\ pc' = "qn_gen"
                 /\ UNCHANGED <<resp, events>>
            ELSE Raise("search raised") /\ frame' = frame
    /\ UNCHANGED <<cachevars, call, inflight, services_initialized, services, req>>

(* RAGService.query_internet, lines 142-177: the generation and the        *)
(* return; inside query_hybrid (line 190) the synthesis follows.           *)
QueryInternetGenerate ==
    /\ pc = "qn_gen"
    /\ \E ok \in BOOLEAN :
         /\ log' = Append(log, Call("llm.generate", "query_internet", ok))
         /\ IF ok
            THEN LET ret == query_internet_result(req.query, frame.search_results) IN
                 IF frame.running = "hybrid"
                 THEN /\ frame' = [frame EXCEPT !.internet_ret = ret]
                      /\ pc' = "qh_gen"
                      /\ UNCHANGED <<resp, events>>
                 ELSE Return(ret)
            ELSE Raise("generate raised") /\ frame' = frame
    /\ UNCHANGED <<cachevars, call, inflight, services_initialized, services, req>>

(* RAGService.query_hybrid, lines 192-218: the synthesis of both answers. *)
QueryHybridGenerate ==
    /\ pc = "qh_gen"
    /\ \E ok \in BOOLEAN :
         /\ log' = Append(log, Call("llm.generate", "query_hybrid", ok))
         /\ IF ok
            THEN Return(query_hybrid_result(req.query, frame.local_ret, frame.internet_ret))
            ELSE Raise("generate raised") /\ frame' = frame
    /\ UNCHANGED <<cachevars, call, inflight, services_initialized, services, req>>

(* What the generation backend may do when score_context asks it: nothing  *)
(* is asked when there are no sources.                                     *)
ScoreResponses(sources) ==
    IF sources = <<>> THEN {<<>>} ELSE ConfidenceResponses \cup {LlmRaised}

ScoreCalls(sources, response) ==
    IF sources = <<>> THEN <<>>
    ELSE <<Call("llm.generate", "score_context", response # LlmRaised)>>

(* query_intelligent, lines 147-196: the scoring of the local sources and  *)
(* the routing decision.                                                   *)
AgentScore ==
    /\ pc = "score" /\ req.endpoint = "query"
    /\ \E response \in ScoreResponses(frame.local_result.sources) :
         LET quality == score_context(req.query, frame.local_result.sources, response)
             d == decide(quality, req.user)
             decision_log == frame.decision_log \o <<"quality", "reason", d.agent_decision>>
             perf == [context_eval_ms |-> "ms"] @@ frame.perf
         IN
         /\ log' = log \o ScoreCalls(frame.local_result.sources, response)
         /\ IF d.run = "none"
            THEN /\ frame' = [frame EXCEPT
                        !.running = "none", !.phase = "auto_final",
                        !.quality = quality, !.agent_decision = d.agent_decision,
                        !.decision_log = decision_log,
                        !.perf = IF d.agent_decision = "local_no_permission"
                                 THEN [llm_generation_ms |-> 0] @@ perf ELSE perf,
                        !.final_result = annotate(frame.local_result, quality,
                                                  d.agent_decision, req.query, now)]
                 /\ pc' = "cache_set"
            ELSE /\ frame' = [frame EXCEPT
                        !.running = d.run, !.phase = "auto_final", !.return_timing = FALSE,
                        !.quality = quality, !.agent_decision = d.agent_decision,
                        !.decision_log = decision_log, !.perf = perf]
                 /\ pc' = EntryPc(d.run)
    /\ UNCHANGED <<cachevars, call, inflight, services_initialized, services, req, events, resp>>

(* query_intelligent, lines 105-117 and 214-232: the cache write and the   *)
(* return; query.py line 111 builds the response.                          *)
AgentCacheSet ==
    /\ pc = "cache_set" /\ req.endpoint = "query"
    /\ \E stored \in BOOLEAN :
         /\ stored => Len(cache) < MaxCacheEntries
         /\ LET final_result == frame.final_result
                metadata ==
                    IF frame.phase = "forced"
                    THEN [context_quality |->
                            IF "context_quality" \in DOMAIN final_result
                            THEN final_result.context_quality ELSE None]
                    ELSE [context_quality |-> frame.quality,
                          agent_decision |-> frame.agent_decision]
                payload == cache_payload(req.query, final_result.answer, final_result.sources,
                                         final_result.mode, req.user.user_id, metadata, now)
                result ==
                    IF frame.phase = "forced" THEN final_result
                    ELSE [decision_log |-> frame.decision_log \o <<"caching", "complete">>,
                          performance_breakdown |->
                              [cache_store_ms |-> "ms", total_ms |-> "ms"] @@ frame.perf]
                         @@ final_result
                body == QueryResponse(result)
            IN /\ cache' = IF stored THEN cache_set(cache, req.query, payload) ELSE cache
               /\ log' = Append(log, Call("cache.set", "query_intelligent", stored))
               /\ resp' = [http |-> IF body = None THEN 500 ELSE 200,
                           returned |-> result, body |-> body,
                           raised |-> IF body = None THEN "ValidationError" ELSE ""]
               /\ pc' = "done"
    /\ UNCHANGED <<collection, now, cloud_inference, call, inflight, services_initialized, services, req, frame, events>>

----
(* POST /query/stream (api/routes/query_stream.py): the permission check,  *)
(* then the streaming response whose body stream_agent_query generates.    *)
PostQueryStream ==
    /\ pc = "idle"
    /\ \E h \in Headers, q \in RequestQueries, m \in Modes, k \in TopKs :
         LET current_user == get_current_user(h) IN
         /\ req' = [endpoint |-> "stream", user |-> current_user, query |-> q,
                    mode |-> m, top_k |-> k]
         /\ IF current_user = None
            THEN resp' = [NoResponse EXCEPT !.http = 401] /\ pc' = "done"
            ELSE IF forbidden(m, current_user)
            THEN resp' = [NoResponse EXCEPT !.http = 403] /\ pc' = "done"
            ELSE resp' = [NoResponse EXCEPT !.http = 200] /\ pc' = "st_init"
    /\ log' = <<>>
    /\ frame' = NoFrame
    /\ events' = <<>>
    /\ UNCHANGED <<cachevars, call, inflight, services_initialized, services>>

(* stream_agent_query, lines 118-140: get_services builds the services     *)
(* once per process.  When it raises, the except clause reads start_time,  *)
(* which is not yet bound, and the generator ends with that error.         *)
StreamInit ==
    /\ pc = "st_init"
    /\ \E ok \in BOOLEAN :
         /\ services_initialized => ok
         /\ IF ok
            THEN /\ services_initialized' = TRUE
                 /\ services' = IF services_initialized THEN services ELSE services + 1
                 /\ log' = IF services_initialized THEN log
                           ELSE Append(log, Call("vector_store.create_collection", "initialize", TRUE))
                 /\ events' = Append(events, "status:cache_check")
                 /\ pc' = "cache_get"
                 /\ resp' = resp
            ELSE /\ services_initialized' = FALSE
                 /\ services' = services
                 /\ log' = Append(log, Call("get_services", "stream_agent_query", FALSE))
                 /\ events' = events
                 /\ pc' = "done"
                 /\ resp' = [resp EXCEPT !.raised = "UnboundLocalError"]
    /\ UNCHANGED <<cachevars, call, inflight, req, frame>>

(* stream_agent_query, lines 142-226: the cache lookup. *)
StreamCacheGet ==
    /\ pc = "cache_get" /\ req.endpoint = "stream"
    /\ \E outcome \in CacheGetOutcomes(req.query) :
         LET cached_result == semantic_cache_get(outcome) IN
         /\ log' = Append(log, Call("cache.get", "stream_agent_query", ~outcome.raised))
         /\ frame' = [frame EXCEPT !.cached_result = cached_result]
         /\ IF is_hit(cached_result)
            THEN /\ events' = events
                        \o (IF cloud_inference /\ "cache_latency_ms" \in DOMAIN cached_result
                            THEN <<"status:cache_hit", "status:cache_breakdown">>
                            ELSE <<"status:cache_hit">>)
                        \o <<"result">>
                 /\ resp' = [resp EXCEPT !.returned =
                                [processing_time_ms |-> "ms", cache_only_ms |-> "ms",
                                 overhead_ms |-> "ms"] @@ cached_result]
                 /\ pc' = "done"
            ELSE /\ events' = events
                        \o <<"status:cache_miss",
                             IF cloud_inference THEN "status:qdrant_search" ELSE "status:embedding">>
                 /\ resp' = resp
                 /\ pc' = "st_search"
    /\ UNCHANGED <<cachevars, call, inflight, services_initialized, services, req>>

(* stream_agent_query, lines 228-315: the handler's own search of the text *)
(* collection, the filter and the sources.                                 *)
StreamSearch ==
    /\ pc = "st_search"
    /\ \E outcome \in {"ok", "embedding raised", "search raised"} :
         /\ outcome = "embedding raised" => ~cloud_inference
         /\ log' = log
                \o (IF cloud_inference THEN <<>>
                    ELSE <<Call("embedding.embed_text_query", "stream_agent_query",
                                outcome # "embedding raised")>>)
                \o (IF outcome = "embedding raised" THEN <<>>
                    ELSE <<Call("vector_store.search", "stream_agent_query", outcome = "ok")>>)
         /\ events' = events
                \o (IF cloud_inference \/ outcome = "embedding raised" THEN <<>>
                    ELSE <<"status:embedding_done", "status:qdrant_search">>)
                \o (IF outcome = "ok" THEN <<"status:qdrant_done", "status:evaluation">>
                    ELSE <<"error">>)
         /\ IF outcome = "ok"
            THEN /\ frame' = [frame EXCEPT !.results =
                        local_results(vector_store_search(req.query, req.top_k),
                                      req.top_k, filter_classified)]
                 /\ pc' = "score"
                 /\ resp' = resp
            ELSE /\ frame' = frame
                 /\ pc' = "done"
                 /\ resp' = [resp EXCEPT !.raised = outcome]
    /\ UNCHANGED <<cachevars, call, inflight, services_initialized, services, req>>

(* stream_agent_query, lines 317-381: the scoring, the decision and the    *)
(* start of the retrieval it chose.                                        *)
StreamScore ==
    /\ pc = "score" /\ req.endpoint = "stream"
    /\ \E response \in ScoreResponses(local_sources(frame.results)) :
         LET sources == local_sources(frame.results)
             quality == score_context(req.query, sources, response)
             mode == mode_used(quality, req.user)
         IN
         /\ log' = log \o ScoreCalls(sources, response)
         /\ events' = events
                \o <<"status:evaluation_done", "decision",
                     IF mode \in {"internet", "hybrid"}
                     THEN "status:internet_search" ELSE "status:llm_generate">>
         /\ frame' = [frame EXCEPT
                !.running = mode, !.phase = "final", !.return_timing = (mode = "local"),
                !.quality = quality, !.agent_decision = mode]
         /\ pc' = EntryPc(mode)
    /\ UNCHANGED <<cachevars, call, inflight, services_initialized, services, req, resp>>

(* stream_agent_query, lines 394-439: the cache write and the result event. *)
StreamCacheSet ==
    /\ pc = "cache_set" /\ req.endpoint = "stream"
    /\ \E stored \in BOOLEAN :
         /\ stored => Len(cache) < MaxCacheEntries
         /\ LET final_result == frame.final_result
                payload == cache_payload(req.query, final_result.answer, final_result.sources,
                                         final_result.mode, req.user.user_id, <<>>, now)
            IN /\ cache' = IF stored THEN cache_set(cache, req.query, payload) ELSE cache
               /\ log' = Append(log, Call("cache.set", "stream_agent_query", stored))
               /\ events' = events \o <<"status:complete", "result">>
               /\ resp' = [resp EXCEPT !.returned =
                              stream_result_data(final_result, req.query, frame.quality,
                                                 frame.agent_decision, now)]
               /\ pc' = "done"
    /\ UNCHANGED <<collection, now, cloud_inference, call, inflight, services_initialized, services, req, frame>>

----
(* The response has been sent: the handler's frame is gone and the server  *)
(* waits for the next request.                                             *)
ResponseSent ==
    /\ pc = "done"
    /\ pc' = "idle"
    /\ req' = None
    /\ frame' = NoFrame
    /\ log' = <<>>
    /\ events' = <<>>
    /\ resp' = NoResponse
    /\ UNCHANGED <<cachevars, call, inflight, services_initialized, services>>

Next ==
    \/ PostQuery
    \/ AgentCacheGet
    \/ AgentScore
    \/ AgentCacheSet
    \/ PostQueryStream
    \/ StreamInit
    \/ StreamCacheGet
    \/ StreamSearch
    \/ StreamScore
    \/ StreamCacheSet
    \/ QueryLocalSearch
    \/ QueryLocalGenerate
    \/ QueryInternetSearch
    \/ QueryInternetGenerate
    \/ QueryHybridGenerate
    \/ ResponseSent

Spec == Init /\ [][Next]_vars

----
(* Concurrent first requests at POST /query/stream: each request is a task *)
(* that awaits get_services, and tasks interleave at its await.            *)

MaxRequests == 3

(* get_services, lines 36-66: with the flag down the task builds the       *)
(* services, stores them in the module globals and awaits                  *)
(* _semantic_cache.initialize(); with the flag up it returns the globals   *)
(* at once (lines 66-74).                                                  *)
GetServicesCall(t) ==
    /\ t \notin DOMAIN inflight
    /\ IF ~services_initialized
       THEN /\ services' = services + 1
            /\ log' = log \o <<Call("SemanticCache", "get_services", TRUE),
                               Call("vector_store.create_collection", "initialize", TRUE)>>
            /\ inflight' = (t :> [pc |-> "initialize", services |-> 0]) @@ inflight
       ELSE /\ inflight' = (t :> [pc |-> "returned", services |-> services]) @@ inflight
            /\ UNCHANGED <<services, log>>
    /\ UNCHANGED <<cachevars, call, services_initialized, pc, req, frame, events, resp>>

(* get_services, lines 64-74: initialize has returned; the task raises the *)
(* flag and returns what the module globals hold now.                      *)
GetServicesReturn(t) ==
    /\ t \in DOMAIN inflight
    /\ inflight[t].pc = "initialize"
    /\ services_initialized' = TRUE
    /\ inflight' = [inflight EXCEPT ![t] = [pc |-> "returned", services |-> services]]
    /\ UNCHANGED <<cachevars, call, services, pc, req, frame, log, events, resp>>

(* The request that got its services ends. *)
StreamEnds(t) ==
    /\ t \in DOMAIN inflight
    /\ inflight[t].pc = "returned"
    /\ inflight' = Returned(t)
    /\ UNCHANGED <<cachevars, call, reqvars>>

NextServices ==
    \E t \in 1..MaxRequests : GetServicesCall(t) \/ GetServicesReturn(t) \/ StreamEnds(t)

SpecServices == Init /\ [][NextServices]_vars

----
(* Properties. *)

(* C1: in auto mode after a cache miss, query_intelligent's decision tag   *)
(* and the mode of its result follow the four-way table over               *)
(* (is_sufficient, can_search_internet, overall_score): sufficient gives   *)
(* local_sufficient / local; insufficient without permission gives         *)
(* local_no_permission / local; insufficient with permission and a score   *)
(* below 0.3 gives internet_no_local / internet; otherwise                 *)
(* hybrid_partial_local / hybrid.                                          *)
C1_RoutingTruthTable ==
    (pc # "idle" /\ req.endpoint = "query" /\ frame.phase = "auto_final") =>
        LET quality == frame.quality
            permitted == req.user.permissions.can_search_internet
            tag == IF quality.is_sufficient THEN "local_sufficient"
                   ELSE IF ~permitted THEN "local_no_permission"
                   ELSE IF quality.overall_score < 300 THEN "internet_no_local"
                   ELSE "hybrid_partial_local"
            mode == IF tag = "internet_no_local" THEN "internet"
                    ELSE IF tag = "hybrid_partial_local" THEN "hybrid"
                    ELSE "local"
        IN /\ req.mode = "auto"
           /\ frame.cached_result = None
           /\ frame.agent_decision = tag
           /\ frame.running = (IF mode = "local" THEN "none" ELSE mode)
           /\ (pc = "done" /\ resp.returned # None) =>
                 /\ resp.returned.agent_decision = tag
                 /\ resp.returned.mode = mode
                 /\ resp.returned.context_quality = quality

C1_Witness ==
    /\ pc = "done" /\ req.endpoint = "query" /\ req.mode = "auto"
    /\ resp.returned # None
    /\ frame.phase = "auto_final"
    /\ ~frame.quality.is_sufficient
    /\ frame.quality.overall_score < 300
    /\ resp.returned.agent_decision = "internet_no_local"
    /\ resp.returned.mode = "internet"

(* C2: in query_intelligent the cache lookup is the first call, whatever   *)
(* the requested mode, and when it hits the call returns the cached answer *)
(* with no retrieval, scoring, search, generation or cache write.          *)
C2_CacheLookupFirst ==
    (pc # "idle" /\ req.endpoint = "query") =>
        /\ \A i \in 1..Len(log) :
              log[i].by # "initialize" =>
                 (log[i].op = "cache.get" <=> i = 2)
        /\ Len(log) >= 2 => log[1].by = "initialize"
        /\ frame.cached_result # None =>
              /\ pc = "done"
              /\ Len(log) = 2
              /\ resp.returned # None
              /\ resp.returned.cached
              /\ resp.returned.answer = frame.cached_result.answer
              /\ resp.returned.sources = frame.cached_result.sources

C2_Witness ==
    /\ pc = "done" /\ req.endpoint = "query" /\ req.mode = "hybrid"
    /\ frame.cached_result # None
    /\ resp.returned # None
    /\ Len(log) = 2

(* C3: SemanticCache.get never returns an entry whose similarity to the    *)
(* query is below the threshold, whatever the collection holds.            *)
C3_ScoreAtLeastThreshold ==
    (call.op = "get" /\ call.ret # None) =>
        /\ call.ret.cache_score >= similarity_threshold
        /\ CosineTable[embed_text_query(call.query),
                       embed_text_query(call.ret.cached_query)] >= similarity_threshold

C3_Witness ==
    /\ call.op = "get" /\ call.ret # None
    /\ call.ret.cached_query # call.query
    /\ call.ret.cache_score < 1000
    /\ \E i \in 1..Len(cache) :
          CosineTable[embed_text_query(call.query), cache[i].vector] < similarity_threshold

(* C4: SemanticCache.get never returns an entry older than the TTL; an     *)
(* entry written 25 hours before the get is absent with a TTL of 24 hours. *)
C4_NoEntryOlderThanTtl ==
    (call.op = "get" /\ call.results # <<>>) =>
        LET age == now - fromisoformat(call.results[1].payload.timestamp) IN
        /\ call.ret # None => age <= ttl_hours
        /\ age >= ttl_hours + 1 => call.ret = None

C4_Witness ==
    /\ call.op = "get" /\ call.results # <<>>
    /\ call.results[1].payload.query = call.query
    /\ call.results[1].score >= similarity_threshold
    /\ now - fromisoformat(call.results[1].payload.timestamp) = ttl_hours + 1
    /\ call.ret = None

(* C5: after a set that stored its entry, an immediate get with the same   *)
(* query text that does not fail returns a hit with similarity 1.0,        *)
(* whatever the collection held before.                                    *)
C5_RoundTrip ==
    (call.op = "get" /\ call.after_set /\ ~call.raised) =>
        /\ call.ret # None
        /\ call.ret.cache_score = 1000

C5_Witness ==
    /\ call.op = "get" /\ call.after_set /\ ~call.raised
    /\ call.ret = None
    /\ Len(cache) = 2
    /\ cache[1].payload.query = call.query
    /\ cache[2].payload.query = call.query
    /\ now - fromisoformat(cache[1].payload.timestamp) > ttl_hours
    /\ now - fromisoformat(cache[2].payload.timestamp) = 0

(* C6: a fault of the cache never reaches the caller of query_intelligent: *)
(* after a failed lookup the call stands where a miss leaves it, after a   *)
(* failed write it returns the answer it computed, and every error the     *)
(* call ends with comes from a call other than the cache's.                *)
C6_CacheFaultsAbsorbed ==
    (pc # "idle" /\ req.endpoint = "query") =>
        /\ (Len(log) = 2 /\ ~log[2].ok) =>
              /\ frame.cached_result = None
              /\ frame.phase = (IF req.mode = "auto" THEN "auto_local" ELSE "forced")
              /\ IF req.mode \in {"auto", "local", "internet", "hybrid"}
                 THEN /\ pc = (IF req.mode = "internet" THEN "qn_search" ELSE "ql_search")
                      /\ frame.running = (IF req.mode = "auto" THEN "local" ELSE req.mode)
                      /\ resp = NoResponse
                 ELSE /\ pc = "done"
                      /\ resp.raised = "ValueError"
        /\ (Len(log) >= 1 /\ log[Len(log)].op = "cache.set") =>
              /\ pc = "done"
              /\ resp.returned # None
              /\ resp.returned.answer = frame.final_result.answer
              /\ resp.returned.sources = frame.final_result.sources
              /\ resp.raised \in {"", "ValidationError"}
        /\ resp.raised \notin {"", "ValidationError", "ValueError"} =>
              /\ Len(log) >= 1
              /\ ~log[Len(log)].ok
              /\ log[Len(log)].op \notin {"cache.get", "cache.set"}

C6_Witness ==
    /\ pc = "done" /\ req.endpoint = "query"
    /\ Len(log) >= 3
    /\ log[2].op = "cache.get" /\ ~log[2].ok
    /\ log[Len(log)].op = "cache.set" /\ ~log[Len(log)].ok
    /\ resp.http = 200
    /\ resp.returned # None

(* C7: when the embedding, the search or the generation backend raises     *)
(* inside query_local, query_internet or query_hybrid, query_intelligent   *)
(* ends with that error and no result, and the failed call is the last     *)
(* call made: nothing is retried.                                          *)
C7_BackendFailurePropagates ==
    (pc # "idle" /\ req.endpoint = "query") =>
        \A i \in 1..Len(log) :
            (~log[i].ok /\ log[i].by \in {"query_local", "query_internet", "query_hybrid"}) =>
                /\ i = Len(log)
                /\ pc = "done"
                /\ resp.returned = None
                /\ resp.body = None
                /\ resp.http = 500
                /\ resp.raised = (CASE log[i].op = "llm.generate" -> "generate raised"
                                    [] log[i].op = "embedding.embed_text_query" -> "embedding raised"
                                    [] OTHER -> "search raised")

C7_Witness ==
    /\ pc = "done" /\ req.endpoint = "query" /\ req.mode = "auto"
    /\ Len(log) >= 1
    /\ log[Len(log)] = Call("llm.generate", "query_hybrid", FALSE)
    /\ resp.returned = None
    /\ resp.raised = "generate raised"

(* C8 as stated: for a forced mode local, internet or hybrid, in any state *)
(* of the cache, the returned result carries a decision tag naming the     *)
(* forced mode and score_context is not invoked.                           *)
C8_ForcedTagAnyCacheState ==
    (pc = "done" /\ req.endpoint = "query" /\ req.mode \in {"local", "internet", "hybrid"}
        /\ resp.returned # None) =>
        /\ \A i \in 1..Len(log) : log[i].by # "score_context"
        /\ "agent_decision" \in DOMAIN resp.returned
        /\ resp.returned.agent_decision =
              (CASE req.mode = "local" -> "User override: local"
                 [] req.mode = "internet" -> "User override: internet"
                 [] req.mode = "hybrid" -> "User override: hybrid")

(* C8, amended: for a forced mode local, internet or hybrid, score_context *)
(* is not invoked in any state of the cache; when the lookup misses, the   *)
(* returned result carries the tag "User override: <mode>" and the forced  *)
(* mode; when it hits, the cached result is returned without a tag.        *)
C8_ForcedTagOnMiss ==
    (pc # "idle" /\ req.endpoint = "query" /\ req.mode \in {"local", "internet", "hybrid"}) =>
        /\ \A i \in 1..Len(log) : log[i].by # "score_context"
        /\ pc # "score"
        /\ (pc = "done" /\ resp.returned # None /\ frame.cached_result = None) =>
              /\ "agent_decision" \in DOMAIN resp.returned
              /\ resp.returned.agent_decision =
                    (CASE req.mode = "local" -> "User override: local"
                       [] req.mode = "internet" -> "User override: internet"
                       [] req.mode = "hybrid" -> "User override: hybrid")
              /\ resp.returned.mode = req.mode
        /\ (pc = "done" /\ frame.cached_result # None) =>
              /\ resp.returned # None
              /\ "agent_decision" \notin DOMAIN resp.returned
              /\ resp.returned.mode = frame.cached_result.mode

C8_Witness ==
    /\ pc = "done" /\ req.endpoint = "query" /\ req.mode = "internet"
    /\ frame.cached_result = None
    /\ Len(cache) = 1
    /\ log[2] = Call("cache.get", "query_intelligent", TRUE)
    /\ resp.returned # None
    /\ resp.returned.agent_decision = "User override: internet"

(* C9: an auto-mode query that misses the cache, from a user without the   *)
(* internet permission, never calls the internet search; when the local    *)
(* context is insufficient the decision is local_no_permission and the     *)
(* answer generated from the local context is returned.                    *)
C9_NoPermissionStaysLocal ==
    (pc # "idle" /\ req.user # None /\ req.mode = "auto"
        /\ ~req.user.permissions.can_search_internet /\ frame.cached_result = None) =>
        /\ \A i \in 1..Len(log) : log[i].op # "search.search"
        /\ (pc = "done" /\ resp.returned # None /\ ~frame.quality.is_sufficient) =>
              /\ resp.returned.agent_decision = "local_no_permission"
              /\ resp.returned.mode = "local"
              /\ resp.returned.answer.prompt = "local"

C9_Witness ==
    /\ pc = "done" /\ req.endpoint = "stream" /\ req.mode = "auto"
    /\ req.user # None
    /\ ~req.user.permissions.can_search_internet
    /\ frame.cached_result = None
    /\ resp.returned # None
    /\ ~frame.quality.is_sufficient
    /\ frame.results = <<>>
    /\ resp.returned.agent_decision = "local"
    /\ \A i \in 1..Len(log) : log[i].op # "search.search"

(* C10: at both endpoints a request without valid credentials is answered  *)
(* 401 and a request for internet or hybrid from a user without            *)
(* can_search_internet is answered 403, before the cache, the vector       *)
(* store, the search backend or the generation backend is called.          *)
C10_RejectedBeforeAnyCall ==
    pc # "idle" =>
        /\ req.user = None => (pc = "done" /\ resp.http = 401 /\ log = <<>>)
        /\ (req.user # None /\ req.mode \in {"internet", "hybrid"}
               /\ ~req.user.permissions.can_search_internet) =>
              (pc = "done" /\ resp.http = 403 /\ log = <<>>)

C10_Witness ==
    /\ pc = "done" /\ req.endpoint = "query" /\ req.mode = "internet"
    /\ req.user # None
    /\ ~req.user.permissions.can_search_internet
    /\ resp.http = 403
    /\ log = <<Call("vector_store.create_collection", "initialize", TRUE)>>

(* C11: every result query_intelligent returns with cached = true carries  *)
(* no ContextQuality, and in its performance_breakdown every stage other   *)
(* than total and cache check is null.                                     *)
C11_CachedResultShape ==
    (pc = "done" /\ req.endpoint = "query" /\ resp.returned # None
        /\ "cached" \in DOMAIN resp.returned /\ resp.returned.cached) =>
        /\ "context_quality" \notin DOMAIN resp.returned
        /\ "performance_breakdown" \in DOMAIN resp.returned
        /\ \A stage \in {"embedding_ms", "qdrant_search_ms", "context_eval_ms",
                         "internet_search_ms", "llm_generation_ms", "cache_store_ms"} :
              /\ stage \in DOMAIN resp.returned.performance_breakdown
              /\ resp.returned.performance_breakdown[stage] = "null"
        /\ resp.returned.performance_breakdown["total_ms"] = "ms"
        /\ resp.returned.performance_breakdown["cache_check_ms"] = "ms"
        /\ resp.body # None
        /\ "context_quality" \notin DOMAIN resp.body

C11_Witness ==
    /\ pc = "done" /\ req.endpoint = "query"
    /\ resp.returned # None
    /\ "cached" \in DOMAIN resp.returned /\ resp.returned.cached
    /\ Len(cache) = 1
    /\ "context_quality" \in DOMAIN cache[1].payload
    /\ cache[1].payload.context_quality # None
    /\ resp.returned.answer = cache[1].payload.answer

(* C12: every result query_intelligent returns for a query that missed    *)
(* the cache, on the forced-mode path as on the auto path, carries the     *)
(* decision trace, the decision tag, a per-stage timing breakdown, a query *)
(* id and a timestamp, and the ContextQuality when it was computed.        *)
C12_MissResultAnnotated ==
    (pc = "done" /\ req.endpoint = "query" /\ resp.returned # None
        /\ frame.cached_result = None) =>
        /\ {"decision_log", "agent_decision", "performance_breakdown",
            "query_id", "timestamp"} \subseteq DOMAIN resp.returned
        /\ resp.returned.decision_log # <<>>
        /\ frame.quality # None =>
              /\ "context_quality" \in DOMAIN resp.returned
              /\ resp.returned.context_quality = frame.quality

C12_Witness ==
    /\ pc = "done" /\ req.endpoint = "query" /\ req.mode = "local"
    /\ frame.cached_result = None
    /\ resp.returned # None
    /\ {"decision_log", "agent_decision"} \subseteq DOMAIN resp.returned
    /\ {"performance_breakdown", "query_id", "timestamp"} \cap DOMAIN resp.returned = {}
    /\ resp.http = 500
    /\ resp.raised = "ValidationError"

(* C13: a query_intelligent call that misses the cache and obtains an     *)
(* answer issues exactly one cache set, after the answer was generated and *)
(* as its last call before returning, with the answer, sources and mode of *)
(* the result it returns; a call that hits the cache issues none.          *)
C13_ExactlyOneCacheSet ==
    (pc # "idle" /\ req.endpoint = "query") =>
        LET sets == {i \in 1..Len(log) : log[i].op = "cache.set"} IN
        /\ Cardinality(sets) <= 1
        /\ frame.cached_result # None => sets = {}
        /\ sets # {} =>
              /\ sets = {Len(log)}
              /\ pc = "done"
              /\ resp.returned # None
        /\ (pc = "done" /\ resp.returned # None /\ frame.cached_result = None) =>
              /\ sets = {Len(log)}
              /\ \E j \in 1..(Len(log) - 1) :
                    /\ log[j].op = "llm.generate"
                    /\ log[j].by \in {"query_local", "query_internet", "query_hybrid"}
                    /\ log[j].ok
              /\ log[Len(log)].ok =>
                    /\ cache # <<>>
                    /\ cache[Len(cache)].payload.query = req.query
                    /\ cache[Len(cache)].payload.answer = resp.returned.answer
                    /\ cache[Len(cache)].payload.mode = resp.returned.mode
                    /\ cache[Len(cache)].payload.sources =
                          [i \in 1..Len(resp.returned.sources) |->
                              source_dict(resp.returned.sources[i])]

C13_Witness ==
    /\ pc = "done" /\ req.endpoint = "query" /\ req.mode = "auto"
    /\ frame.cached_result = None
    /\ resp.returned # None
    /\ resp.returned.mode = "hybrid"
    /\ log[Len(log)] = Call("cache.set", "query_intelligent", TRUE)
    /\ Len(cache) = 1
    /\ cache[1].payload.mode = "hybrid"
    /\ cache[1].payload.answer = resp.returned.answer

C15_OneTerminalEvent ==
    (pc # "idle" /\ req.endpoint = "stream" /\ resp.http = 200) =>
        LET terminal == {i \in 1..Len(events) : events[i] \in {"result", "error"}} IN
        /\ Cardinality(terminal) <= 1
        /\ terminal # {} => (terminal = {Len(events)} /\ pc = "done")
        /\ pc = "done" => Cardinality(terminal) = 1

C15_Witness ==
    /\ pc = "done" /\ req.endpoint = "stream" /\ resp.http = 200
    /\ log = <<Call("get_services", "stream_agent_query", FALSE)>>
    /\ resp.raised = "UnboundLocalError"
    /\ events = <<>>

(* C16: for the same query, user, requested mode (auto, local, internet   *)
(* or hybrid), cache state and backend responses, the result event that    *)
(* ends stream_agent_query carries the mode, answer and sources of the     *)
(* result query_intelligent returns.  The first conjunct ties              *)
(* query_intelligent_result to the steps of query_intelligent; the second  *)
(* compares the streamed result with it.                                   *)
C16_StreamMatchesAgent ==
    (pc = "done" /\ resp.returned # None
        /\ req.mode \in {"auto", "local", "internet", "hybrid"}) =>
        LET expected == query_intelligent_result(req.query, req.user, req.mode, req.top_k,
                                                 frame.cached_result, frame.quality)
        IN /\ resp.returned.mode = expected.mode
           /\ resp.returned.answer = expected.answer
           /\ resp.returned.sources = expected.sources

C16_Witness ==
    /\ pc = "done" /\ req.endpoint = "stream" /\ req.mode = "local"
    /\ frame.cached_result = None
    /\ resp.returned # None
    /\ events[Len(events)] = "result"
    /\ resp.returned.mode = "hybrid"
    /\ query_intelligent_result(req.query, req.user, req.mode, req.top_k,
                                frame.cached_result, frame.quality).mode = "local"

(* C17: for every query, score_context on an empty source list returns    *)
(* overall_score, vector_score, coverage and llm_confidence 0,             *)
(* is_sufficient false and the fixed reason string, and asks the           *)
(* generation backend nothing.                                             *)
C17_EmptySourcesScoreZero ==
    (pc # "idle" /\ req.user # None /\ frame.quality # None
        /\ (IF req.endpoint = "query" THEN frame.local_result.sources
            ELSE local_sources(frame.results)) = <<>>) =>
        /\ frame.quality =
              [overall_score |-> 0, vector_score |-> 0, coverage |-> 0, llm_confidence |-> 0,
               is_sufficient |-> FALSE,
               reason |-> "No relevant documents found in knowledge base"]
        /\ \A i \in 1..Len(log) : log[i].by # "score_context"

C17_Witness ==
    /\ pc = "done" /\ req.endpoint = "query" /\ req.mode = "auto"
    /\ req.query = QA
    /\ frame.quality # None
    /\ frame.local_result.sources = <<>>
    /\ frame.quality.overall_score = 0
    /\ resp.returned # None
    /\ resp.returned.agent_decision = "internet_no_local"
    /\ \A i \in 1..Len(log) : log[i].by # "score_context"

(* C18: under any interleaving of concurrent set calls, a step that        *)
(* changes the collection adds exactly one entry, under an id no existing  *)
(* entry has, and leaves every existing entry as it was; and every stored  *)
(* entry has the query, answer, sources and mode of one single execution.  *)
C18_ConcurrentSetsAppendOnly ==
    [][/\ cache' # cache =>
            /\ Len(cache') = Len(cache) + 1
            /\ SubSeq(cache', 1, Len(cache)) = cache
            /\ \A i \in 1..Len(cache) : cache[i].id # cache'[Len(cache')].id
       /\ \A i \in 1..Len(cache') : \E e \in Executions :
            /\ cache'[i].payload.query = e.query
            /\ cache'[i].payload.answer = e.result.answer
            /\ cache'[i].payload.sources =
                 [j \in 1..Len(e.result.sources) |-> source_dict(e.result.sources[j])]
            /\ cache'[i].payload.mode = e.result.mode
            /\ cache'[i].vector = embed_text_query(e.query)]_vars

C18_Witness ==
    /\ Len(cache) = 2
    /\ cache[1].id = 2 /\ cache[2].id = 1
    /\ cache[1].payload.query # cache[2].payload.query
    /\ cache[1].payload.mode # cache[2].payload.mode
    /\ inflight = <<>>

(* C19: an entry is valid for reads only while its age is strictly less    *)
(* than the TTL: SemanticCache.get returns None for a best match whose age *)
(* equals or exceeds the TTL.                                              *)
C19_AbsentAtOrBeyondTtl ==
    (call.op = "get" /\ call.results # <<>>) =>
        LET age == now - fromisoformat(call.results[1].payload.timestamp) IN
        age >= ttl_hours => call.ret = None

C19_Witness ==
    /\ call.op = "get" /\ call.results # <<>>
    /\ call.results[1].score >= similarity_threshold
    /\ now - fromisoformat(call.results[1].payload.timestamp) = ttl_hours
    /\ call.ret # None
    /\ call.ret.cache_age_minutes = ttl_hours * 60

(* C20: SemanticCache.initialize is idempotent: after it returns the cache *)
(* collection exists, and a call, the first or a later one, raises no      *)
(* error and leaves the entries of the collection as they were.            *)
C20_InitializeEnsuresCollection ==
    call.op = "initialize" =>
        /\ ~call.raised
        /\ collection # None
        /\ cache = call.entries

C20_Witness ==
    /\ call.op = "initialize"
    /\ call.backend = "unreachable"
    /\ ~call.existed
    /\ ~call.raised
    /\ collection = None

(* C21: over any sequence of queries by any users, a user without          *)
(* can_search_internet never receives a result whose mode is internet or   *)
(* hybrid, whether routed or served from the semantic cache.               *)
C21_NoInternetResultWithoutPermission ==
    (pc = "done" /\ req.user # None /\ resp.returned # None
        /\ ~req.user.permissions.can_search_internet) =>
        resp.returned.mode \notin {"internet", "hybrid"}

C21_Witness ==
    /\ pc = "done" /\ req.endpoint = "query" /\ req.mode = "local"
    /\ req.user # None
    /\ req.user.username = "local_user"
    /\ frame.cached_result # None
    /\ resp.http = 200
    /\ resp.returned # None
    /\ resp.returned.cached
    /\ resp.returned.mode = "internet"
    /\ resp.returned.answer.prompt = "internet"

(* The passages of the knowledge base tagged classified, and the passages  *)
(* an answer was generated from (query_local's context; for a hybrid       *)
(* answer, the context of the local answer it combines).                   *)
ClassifiedPassages ==
    {KB[i].payload.content : i \in {j \in 1..Len(KB) : "classified" \in KB[j].payload.tags}}

AnswerPassages(answer) ==
    CASE answer.prompt = "local" -> Range(answer.context)
      [] answer.prompt = "hybrid" -> Range(answer.context[1].context)
      [] OTHER -> {}

(* C22: over any sequence of queries by any users, a user without          *)
(* can_access_classified never receives an answer or sources derived from  *)
(* passages tagged classified, whether freshly retrieved or served from    *)
(* the semantic cache written by another user's query.                     *)
C22_NoClassifiedWithoutPermission ==
    (pc = "done" /\ req.user # None /\ resp.returned # None
        /\ ~req.user.permissions.can_access_classified) =>
        /\ \A i \in 1..Len(resp.returned.sources) :
              resp.returned.sources[i].chunk_text \notin ClassifiedPassages
        /\ AnswerPassages(resp.returned.answer) \cap ClassifiedPassages = {}

C22_Witness ==
    /\ pc = "done" /\ req.endpoint = "query" /\ req.mode = "auto"
    /\ req.user # None
    /\ req.user.username = "hybrid_user"
    /\ frame.cached_result # None
    /\ resp.http = 200
    /\ resp.returned # None
    /\ resp.returned.cached
    /\ \E i \in 1..Len(resp.returned.sources) :
          resp.returned.sources[i].chunk_text \in ClassifiedPassages
    /\ AnswerPassages(resp.returned.answer) \cap ClassifiedPassages # {}

(* C23: when filter_classified is true, no source query_local returns and  *)
(* no passage of the context it sends to the generation backend comes from *)
(* a search result tagged classified, and it returns at most top_k sources. *)
C23_LocalFilterDropsClassified ==
    (pc # "idle" /\ req.endpoint = "query" /\ req.user # None /\ filter_classified) =>
        /\ \A i \in 1..Len(frame.results) : "classified" \notin frame.results[i].payload.tags
        /\ \A ret \in {frame.local_result, frame.local_ret, frame.final_result} \ {None} :
              ret.mode = "local" =>
                 /\ Len(ret.sources) <= req.top_k
                 /\ ret.sources = local_sources(frame.results)
                 /\ \A i \in 1..Len(ret.sources) : ret.sources[i].chunk_text \notin ClassifiedPassages
                 /\ ret.answer.prompt = "local"
                 /\ Range(ret.answer.context) \cap ClassifiedPassages = {}

C23_Witness ==
    /\ pc = "score" /\ req.endpoint = "query" /\ req.user # None /\ filter_classified
    /\ \E i \in 1..Len(vector_store_search(req.query, req.top_k)) :
          "classified" \in vector_store_search(req.query, req.top_k)[i].payload.tags
    /\ frame.local_result # None
    /\ Len(frame.local_result.sources) = 1
    /\ Len(frame.local_result.answer.context) = 1
    /\ Len(vector_store_search(req.query, req.top_k)) = 3

(* C24: for non-empty sources, is_sufficient holds exactly when            *)
(* 0.4 * vector_score + 0.2 * coverage + 0.4 * llm_confidence > 0.6 and    *)
(* llm_confidence > 0.5; the reason is the sufficient text exactly when    *)
(* is_sufficient, the very limited text exactly when not sufficient and    *)
(* the overall score is below 0.3, and the partial text otherwise.         *)
C24_SufficiencyAndReason ==
    (call.op = "score_context" /\ call.returned /\ call.sources # <<>>) =>
        LET v == mean_score(call.sources)
            c == calculate_coverage(call.query, call.sources)
            l == check_llm_confidence(call.query, call.sources, call.response)
            overall10 == 4 * v + 2 * c + 4 * l
            q == call.quality
        IN /\ q.is_sufficient <=> (overall10 > 6000000 /\ l > 500000)
           /\ q.reason = "Local knowledge base has sufficient information" <=> q.is_sufficient
           /\ q.reason = "Local knowledge base has very limited information"
                 <=> (~q.is_sufficient /\ overall10 < 3000000)
           /\ q.reason = "Local knowledge base has partial information, internet search recommended"
                 <=> (~q.is_sufficient /\ overall10 >= 3000000)

C24_Witness ==
    /\ call.op = "score_context" /\ call.returned /\ call.sources # <<>>
    /\ 4 * mean_score(call.sources) + 2 * calculate_coverage(call.query, call.sources)
          + 4 * check_llm_confidence(call.query, call.sources, call.response) > 6000000
    /\ check_llm_confidence(call.query, call.sources, call.response) = 500000
    /\ ~call.quality.is_sufficient
    /\ call.quality.reason = "Local knowledge base has partial information, internet search recommended"

(* C25: when the generation backend fails during score_context on          *)
(* non-empty sources, score_context returns normally with llm_confidence   *)
(* equal to the mean of the sources' relevance scores, the vector_score,   *)
(* and query_intelligent goes on to the routing decision instead of        *)
(* failing the query.                                                      *)
C25_ScoreFaultFallsBack ==
    (pc # "idle" /\ req.endpoint = "query" /\ req.user # None
        /\ \E i \in 1..Len(log) : log[i] = Call("llm.generate", "score_context", FALSE)) =>
        /\ frame.local_result # None
        /\ frame.local_result.sources # <<>>
        /\ frame.quality # None
        /\ frame.quality.llm_confidence = round3(mean_score(frame.local_result.sources))
        /\ frame.quality.llm_confidence = frame.quality.vector_score
        /\ frame.agent_decision = decide(frame.quality, req.user).agent_decision
        /\ pc \in {"cache_set", "ql_search", "ql_gen", "qn_search", "qn_gen", "qh_gen", "done"}
        /\ resp.raised # "" => log[Len(log)].by # "score_context"

C25_Witness ==
    /\ pc = "done" /\ req.endpoint = "query" /\ req.mode = "auto"
    /\ req.user # None
    /\ \E i \in 1..Len(log) : log[i] = Call("llm.generate", "score_context", FALSE)
    /\ frame.quality.llm_confidence = frame.quality.vector_score
    /\ frame.quality.llm_confidence > 0
    /\ resp.http = 200
    /\ resp.returned # None
    /\ resp.returned.agent_decision = "local_sufficient"

(* C26: in auto mode after a cache miss, local retrieval completes before  *)
(* score_context starts, score_context is given exactly the sources local  *)
(* retrieval returned, and score_context completes before any internet     *)
(* search or hybrid call starts, whatever mode is chosen in the end.       *)
C26_LocalThenScoreThenRoute ==
    (pc # "idle" /\ req.endpoint = "query" /\ req.user # None /\ req.mode = "auto"
        /\ Len(log) >= 2 /\ frame.cached_result = None) =>
        LET scored == {i \in 1..Len(log) : log[i].by = "score_context"}
            routed == {i \in 1..Len(log) :
                         log[i].by \in {"query_internet", "query_hybrid"} \/ log[i].op = "search.search"}
            first_local == {i \in 1..Len(log) :
                              /\ log[i] = Call("llm.generate", "query_local", TRUE)
                              /\ \A j \in 1..(i - 1) : log[j].op # "llm.generate"}
        IN /\ frame.local_result = None => (frame.quality = None /\ scored = {} /\ routed = {})
           /\ frame.quality = None => (scored = {} /\ routed = {})
           /\ frame.quality # None =>
                 /\ frame.local_result # None
                 /\ first_local # {}
                 /\ \A i \in scored, j \in first_local : j < i
                 /\ \A i \in routed, j \in first_local : j < i
                 /\ \A i \in routed, j \in scored : j < i
                 /\ \E response \in ScoreResponses(frame.local_result.sources) :
                       /\ frame.quality =
                             score_context(req.query, frame.local_result.sources, response)
                       /\ ScoreCalls(frame.local_result.sources, response)
                             = [k \in 1..Cardinality(scored) |->
                                   log[CHOOSE i \in scored : TRUE]]
           /\ routed # {} => frame.quality # None /\ ~frame.quality.is_sufficient

C26_Witness ==
    /\ pc = "done" /\ req.endpoint = "query" /\ req.mode = "auto"
    /\ req.user # None /\ frame.cached_result = None
    /\ resp.returned # None
    /\ resp.returned.mode = "hybrid"
    /\ \E i, j, k \in 1..Len(log) :
          /\ i < j /\ j < k
          /\ log[i] = Call("llm.generate", "query_local", TRUE)
          /\ log[j].by = "score_context"
          /\ log[k].op = "search.search"

(* C27: SemanticCache.get returns a hit whenever the collection holds at   *)
(* least one unexpired entry whose similarity to the query is at or above  *)
(* the threshold: an expired entry for the same or a nearer query does not *)
(* hide a valid entry.                                                     *)
C27_ValidEntryAlwaysHit ==
    (call.op = "get" /\ ~call.raised
        /\ \E i \in 1..Len(cache) :
              /\ CosineTable[embed_text_query(call.query), cache[i].vector] >= similarity_threshold
              /\ now - fromisoformat(cache[i].payload.timestamp) < ttl_hours) =>
        call.ret # None

C27_Witness ==
    /\ call.op = "get" /\ ~call.raised
    /\ call.ret = None
    /\ call.results # <<>>
    /\ Len(cache) = 2
    /\ call.results[1].score > CosineTable[embed_text_query(call.query), cache[2].vector]
    /\ now - fromisoformat(call.results[1].payload.timestamp) > ttl_hours
    /\ CosineTable[embed_text_query(call.query), cache[2].vector] >= similarity_threshold
    /\ now - fromisoformat(cache[2].payload.timestamp) < ttl_hours

(* C28: the scorer's reason and the agent's route agree for every score    *)
(* value: for a user with internet permission in auto mode, the agent      *)
(* routes internet-only exactly when score_context's reason is the very    *)
(* limited text and hybrid exactly when it is the partial text.            *)
C28_ReasonAgreesWithRoute ==
    (call.op = "score_context" /\ call.returned /\ call.sources # <<>>) =>
        LET d == decide(call.quality, MOCK_USERS["admin"]) IN
        /\ d.run = "internet"
              <=> call.quality.reason = "Local knowledge base has very limited information"
        /\ d.run = "hybrid"
              <=> call.quality.reason =
                     "Local knowledge base has partial information, internet search recommended"

C28_Witness ==
    /\ call.op = "score_context" /\ call.returned /\ call.sources # <<>>
    /\ call.quality.reason = "Local knowledge base has very limited information"
    /\ call.quality.overall_score = 300
    /\ ~call.quality.is_sufficient
    /\ decide(call.quality, MOCK_USERS["admin"]).agent_decision = "hybrid_partial_local"

(* Python's `term in text` for the words of the model: the words that      *)
(* hold `term` as a substring.                                             *)
occurs_in(term, word) ==
    \/ term = word
    \/ term = "python" /\ word = "python,"

(* C29: for non-empty sources, coverage is the number of distinct          *)
(* non-stop-word query terms, lower-cased, that occur as substrings of the *)
(* lower-cased source texts, divided by the number of distinct             *)
(* non-stop-word query terms and clamped to [0, 1]; it is 0.5 when the     *)
(* query has no non-stop-word term.                                        *)
C29_CoverageBySubstring ==
    (call.op = "score_context" /\ call.returned /\ call.sources # <<>>) =>
        LET terms == {lower(w) : w \in Range(call.query)} \ stop_words
            words == UNION {{lower(w) : w \in Range(call.sources[i].chunk_text)} :
                              i \in 1..Len(call.sources)}
            found == {t \in terms : \E w \in words : occurs_in(t, w)}
        IN call.quality.coverage =
              IF terms = {} THEN 500
              ELSE round3(Min((Cardinality(found) * 1000000) \div Cardinality(terms), 1000000))

C29_Witness ==
    /\ call.op = "score_context" /\ call.returned
    /\ call.query = <<"What", "is", "Python">>
    /\ Len(call.sources) = 1
    /\ call.sources[1].chunk_text = <<"Python,", "the", "language">>
    /\ call.quality.coverage = 0

(* C30: under any interleaving of concurrent requests to the streaming     *)
(* endpoint, get_services builds the shared services and initialises the   *)
(* semantic cache at most once per process, and every request receives the *)
(* same service instances.                                                 *)
C30_ServicesBuiltOnce ==
    /\ services <= 1
    /\ Cardinality({i \in 1..Len(log) : log[i].by = "initialize"}) <= 1
    /\ \A t, u \in DOMAIN inflight :
          (inflight[t].pc = "returned" /\ inflight[u].pc = "returned") =>
             inflight[t].services = inflight[u].services

C30_Witness ==
    /\ services = 2
    /\ Cardinality({i \in 1..Len(log) : log[i].by = "initialize"}) = 2
    /\ services_initialized
    /\ \E t, u \in DOMAIN inflight :
          /\ t # u
          /\ inflight[t].pc = "returned" /\ inflight[u].pc = "returned"
          /\ inflight[t].services = 2 /\ inflight[u].services = 2

====
